---------------------------- MODULE Spec2Model ----------------------------
(***************************************************************************)
(* Model of img_to_cookie_svg.py: the image -> layered SVG pipeline (main) *)
(* and its helper functions binarize, bbox_from_polys, contour_to_path_d   *)
(* and contours_to_compound_path_d.                                        *)
(*                                                                         *)
(* An image or mask is a record [w, h, px] with px a function from the     *)
(* pixel <<x, y>> (x to the right, y down, as in OpenCV) to 0..255.        *)
(* A contour is a sequence of integer points <<x, y>> (an OpenCV N x 1 x 2 *)
(* int32 array).  cv2 calls are modelled by what the library computes.     *)
(***************************************************************************)
EXTENDS Integers, Sequences, FiniteSets, TLC

\* ----------------------------------------------------------------- bounds
\* size of the images main runs on
ImgW == 5
ImgH == 5
\* largest side of the two ink squares of those images
MaxSideA == 3
MaxSideB == 2
\* size of the images the binarize calls are made on
BinW == 2
BinH == 1
\* longest list of polygons handed to bbox_from_polys / the serializers
MaxPolys == 2
\* largest coordinate of the points of those polygons
MaxCoord == 11

\* float("inf") of bbox_from_polys: above every coordinate of the model
INF == 1000000

\* ------------------------------------------------------------ small helpers
Max2(a, b) == IF a >= b THEN a ELSE b
Min2(a, b) == IF a <= b THEN a ELSE b
Abs(a) == IF a < 0 THEN -a ELSE a

Pix(w, h) == (0 .. w - 1) \X (0 .. h - 1)

\* np.zeros((h, w), dtype=np.uint8)
Zeros(w, h) == [w |-> w, h |-> h, px |-> [p \in Pix(w, h) |-> 0]]

Foreground(m) == {p \in DOMAIN m.px : m.px[p] = 255}

\* ------------------------------------------------------------ cv2 pixel ops
\* cv2.threshold(src, thresh, 255, THRESH_BINARY_INV): 0 if src > thresh else 255
ThreshBinaryInvLE(v, t) == IF v >= t THEN 0 ELSE 255
ThreshBinaryInv(v, t) == IF v > t THEN 0 ELSE 255

\* cv2.threshold(src, thresh, 255, THRESH_BINARY): 255 if src > thresh else 0
ThreshBinaryMaxval1(v, t) == IF v > t THEN 1 ELSE 0
ThreshBinary(v, t) == IF v > t THEN 255 ELSE 0

threshold_inv(img, t) ==
    [w |-> img.w, h |-> img.h,
     px |-> [p \in DOMAIN img.px |-> ThreshBinaryInv(img.px[p], t)]]

threshold_bin(img, t) ==
    [w |-> img.w, h |-> img.h,
     px |-> [p \in DOMAIN img.px |-> ThreshBinary(img.px[p], t)]]

\* cv2.bitwise_not on uint8: 255 - v
BitwiseNot(v) == 255 - v

bitwise_not(m) ==
    [w |-> m.w, h |-> m.h, px |-> [p \in DOMAIN m.px |-> BitwiseNot(m.px[p])]]

\* cv2.bitwise_and on uint8: the AND of the 8 bits
RECURSIVE BitAndN(_, _, _)
BitAndN(a, b, n) ==
    IF n = 0 THEN 0
    ELSE (IF a % 2 = 1 /\ b % 2 = 1 THEN 1 ELSE 0) + 2 * BitAndN(a \div 2, b \div 2, n - 1)

BitOr(a, b) == a + b - BitAndN(a, b, 8)
BitAnd(a, b) == BitAndN(a, b, 8)

bitwise_and(a, b) ==
    [w |-> a.w, h |-> a.h, px |-> [p \in DOMAIN a.px |-> BitAnd(a.px[p], b.px[p])]]

\* cv2 borderInterpolate, BORDER_REFLECT_101 (the default border of
\* GaussianBlur): gfedcb|abcdefgh|gfedcba; a length of 1 maps to 0
Reflect101(i, len) ==
    IF len = 1 THEN 0
    ELSE IF i < 0 THEN -i
    ELSE IF i >= len THEN 2 * len - 2 - i
    ELSE i

\* cv2.GaussianBlur(img, (k, k), 0) on uint8 for the kernel sizes of the
\* model: k = 1 copies; k = 3 is the fixed kernel [1 2 1]/4 in both
\* directions, rounded to nearest
GaussWeight(d) == IF d = 0 THEN 2 ELSE 1

GaussianBlur(img, k) ==
    IF k = 1 THEN img
    ELSE [w |-> img.w, h |-> img.h,
          px |-> [p \in DOMAIN img.px |->
             LET cell(dx, dy) ==
                     GaussWeight(dx) * GaussWeight(dy) *
                     img.px[<<Reflect101(p[1] + dx, img.w), Reflect101(p[2] + dy, img.h)>>]
                 S == cell(-1, -1) + cell(0, -1) + cell(1, -1)
                    + cell(-1, 0)  + cell(0, 0)  + cell(1, 0)
                    + cell(-1, 1)  + cell(0, 1)  + cell(1, 1)
             IN (S + 8) \div 16]]

\* ----------------------------------------------------------------- binarize
binarize(img_gray, thresh_val, blur_k, invert) ==
    LET blurred == IF blur_k # 0 /\ blur_k > 0 /\ blur_k % 2 = 1
                   THEN GaussianBlur(img_gray, blur_k)
                   ELSE img_gray
        binary == threshold_inv(blurred, thresh_val)
    IN IF invert THEN bitwise_not(binary) ELSE binary

\* ---------------------------------------------------------- bbox_from_polys
\* A polygon handed to bbox_from_polys: [fmt, pts] with fmt one of
\*   "None"    the value None
\*   "list"    a Python list of (x, y) tuples     (np.asarray: (N, 2); [] is (0,))
\*   "array"   an OpenCV contour, ndarray (N, 1, 2) or (N, 2), N >= 0
\*   "iter"    another iterable of (x, y) pairs   (np.asarray: ndim 0 or 1)
\*   "triples" a list of (x, y, z) tuples         (np.asarray: (N, 3))
\* pts is the sequence of its points.

\* whether the polygon takes the numpy fast path (lines 136-139, 155-161)
FastPath(poly) ==
    \/ poly.fmt = "array"
    \/ poly.fmt = "list" /\ Len(poly.pts) > 0

RECURSIVE SeqMin(_, _, _)
SeqMin(pts, c, acc) ==
    IF pts = <<>> THEN acc ELSE SeqMin(Tail(pts), c, Min2(acc, Head(pts)[c]))

RECURSIVE SeqMax(_, _, _)
SeqMax(pts, c, acc) ==
    IF pts = <<>> THEN acc ELSE SeqMax(Tail(pts), c, Max2(acc, Head(pts)[c]))

BBoxInit == [min_x |-> INF, min_y |-> INF, max_x |-> -INF, max_y |-> -INF,
             n_points |-> 0, err |-> "none"]

\* one iteration of "for poly in polys" (lines 128-161)
BBoxStep(st, poly) ==
    IF st.err # "none" THEN st
    ELSE IF poly.fmt = "None" THEN st
    ELSE IF FastPath(poly) THEN
        \* xs.min() of a zero-size array raises ValueError
        IF Len(poly.pts) = 0 THEN [st EXCEPT !.err = "ValueError"]
        ELSE [st EXCEPT !.min_x = SeqMin(poly.pts, 1, st.min_x),
                        !.min_y = SeqMin(poly.pts, 2, st.min_y),
                        !.max_x = SeqMax(poly.pts, 1, st.max_x),
                        !.max_y = SeqMax(poly.pts, 2, st.max_y),
                        !.n_points = st.n_points + Len(poly.pts)]
    ELSE \* fall back: iterate as (x, y) pairs
        IF poly.fmt = "triples" /\ Len(poly.pts) > 0
        THEN [st EXCEPT !.err = "TypeError"]
        ELSE [st EXCEPT !.min_x = SeqMin(poly.pts, 1, st.min_x),
                        !.min_y = SeqMin(poly.pts, 2, st.min_y),
                        !.max_x = SeqMax(poly.pts, 1, st.max_x),
                        !.max_y = SeqMax(poly.pts, 2, st.max_y),
                        !.n_points = st.n_points + Len(poly.pts)]

RECURSIVE BBoxLoop(_, _)
BBoxLoop(st, polys) ==
    IF polys = <<>> THEN st ELSE BBoxLoop(BBoxStep(st, Head(polys)), Tail(polys))

\* the n_points == 0 check of line 163
NoPointsNever(n) == FALSE
NoPoints(n) == n = 0

\* the result: [err |-> "none", box |-> <<min_x, min_y, max_x, max_y>>] or
\* [err |-> the exception raised, box |-> <<>>]
bbox_from_polys(polys) ==
    LET st == BBoxLoop(BBoxInit, polys)
    IN IF st.err # "none" THEN [err |-> st.err, box |-> <<>>]
       ELSE IF NoPoints(st.n_points) THEN [err |-> "ValueError", box |-> <<>>]
       ELSE [err |-> "none", box |-> <<st.min_x, st.min_y, st.max_x, st.max_y>>]

\* ------------------------------------------------------------ serialization
\* A Python str is modelled as the sequence of its characters.
DigitChars == <<"0", "1", "2", "3", "4", "5", "6", "7", "8", "9">>

RECURSIVE DecDigits(_)
DecDigits(n) ==
    IF n < 10 THEN <<DigitChars[n + 1]>>
    ELSE DecDigits(n \div 10) \o <<DigitChars[(n % 10) + 1]>>

\* f"{float(v):.2f}" for an integer coordinate v (contours are int32 arrays)
Fmt2f(v) ==
    (IF v < 0 THEN <<"-">> ELSE <<>>) \o DecDigits(Abs(v)) \o <<".", "0", "0">>

\* f"M {float(x0):.2f},{float(y0):.2f}" and the same with L
PathCmd(c, pt) == <<c, " ">> \o Fmt2f(pt[1]) \o <<",">> \o Fmt2f(pt[2])

\* " ".join(d)
RECURSIVE JoinSpace(_)
JoinSpace(parts) ==
    IF parts = <<>> THEN <<>>
    ELSE IF Len(parts) = 1 THEN Head(parts)
    ELSE Head(parts) \o <<" ">> \o JoinSpace(Tail(parts))

\* the command letter of the point at index i (1-based) of a contour
PointCmdAllL(i) == "L"
PointCmd(i) == IF i = 1 THEN "M" ELSE "L"

contour_to_path_d(contour) ==
    LET pts == contour
    IN IF Len(pts) = 0 THEN <<>>
       ELSE JoinSpace([i \in 1 .. Len(pts) |-> PathCmd(PointCmd(i), pts[i])]
                      \o << <<"Z">> >>)

\* the parts list of contours_to_compound_path_d: the non-empty path strings
RECURSIVE CompoundParts(_)
CompoundParts(contours) ==
    IF contours = <<>> THEN <<>>
    ELSE LET d == contour_to_path_d(Head(contours))
         IN (IF d # <<>> THEN <<d>> ELSE <<>>) \o CompoundParts(Tail(contours))

contours_to_compound_path_d(contours) == JoinSpace(CompoundParts(contours))

\* ------------------------------------------------------------- morphology
\* cv2.dilate(mask, np.ones((k, k)), iterations=1), k = 2 r + 1: the maximum
\* over the k x k window; pixels outside the image do not count
Window(m, p, r) ==
    {q \in DOMAIN m.px : Abs(q[1] - p[1]) <= r /\ Abs(q[2] - p[2]) <= r}

dilate(m, r) ==
    [w |-> m.w, h |-> m.h,
     px |-> [p \in DOMAIN m.px |->
        LET win == {m.px[q] : q \in Window(m, p, r)}
        IN CHOOSE v \in win : \A u \in win : u <= v]]

\* cv2.erode(mask, kernel, iterations=n): with n = 0 OpenCV copies the source
erode(m, r, iterations) ==
    IF iterations = 0 THEN m
    ELSE [w |-> m.w, h |-> m.h,
          px |-> [p \in DOMAIN m.px |->
             LET win == {m.px[q] : q \in Window(m, p, r)}
             IN CHOOSE v \in win : \A u \in win : v <= u]]

\* ------------------------------------------------------------ cv2.findContours
\* Border following (Suzuki-Abe) as OpenCV does it: non-zero pixels are
\* foreground, 8-connected; the background is 4-connected; the image is
\* padded with a frame of zeros.
NonZero(m) == {p \in DOMAIN m.px : m.px[p] # 0}

Adjacent(p, q, conn) ==
    /\ p # q
    /\ Abs(p[1] - q[1]) <= 1 /\ Abs(p[2] - q[2]) <= 1
    /\ (conn = 8 \/ Abs(p[1] - q[1]) + Abs(p[2] - q[2]) = 1)

\* the pixels of `allowed` connected to `seed`
RECURSIVE Reach(_, _, _)
Reach(seed, allowed, conn) ==
    LET more == {q \in allowed \ seed : \E p \in seed : Adjacent(p, q, conn)}
    IN IF more = {} THEN seed ELSE Reach(seed \cup more, allowed, conn)

\* raster order: top row first, left to right
RasterBefore(p, q) == p[2] < q[2] \/ (p[2] = q[2] /\ p[1] < q[1])
RasterFirst(S) == CHOOSE p \in S : \A q \in S : p = q \/ RasterBefore(p, q)

\* the connected components of S, as a set of sets
RECURSIVE Components(_, _)
Components(S, conn) ==
    IF S = {} THEN {}
    ELSE LET c == Reach({RasterFirst(S)}, S, conn)
         IN {c} \cup Components(S \ c, conn)

\* the background connected to the frame around the image
OutsideBackground(m) ==
    LET bg == DOMAIN m.px \ NonZero(m)
        edge == {p \in bg : p[1] = 0 \/ p[2] = 0 \/ p[1] = m.w - 1 \/ p[2] = m.h - 1}
    IN Reach(edge, bg, 4)

\* the 8 chain-code directions: 0 = east, then counter-clockwise on screen
Delta == << <<1, 0>>, <<1, -1>>, <<0, -1>>, <<-1, -1>>,
            <<-1, 0>>, <<-1, 1>>, <<0, 1>>, <<1, 1>> >>
Step(p, s) == <<p[1] + Delta[s + 1][1], p[2] + Delta[s + 1][2]>>

\* the first direction after s (s+1, s+2, ..., s+8) that leads to foreground
NextDir(fg, p, s) ==
    LET k == CHOOSE k \in 1 .. 8 :
                /\ Step(p, (s + k) % 8) \in fg
                /\ \A j \in 1 .. k - 1 : Step(p, (s + j) % 8) \notin fg
    IN (s + k) % 8

\* the loop of icvFetchContour with CHAIN_APPROX_SIMPLE: a point is written
\* where the direction changes
RECURSIVE FollowLoop(_, _, _, _, _, _, _)
FollowLoop(fg, i0, i1, i3, s, prev_s, acc) ==
    LET ns == NextDir(fg, i3, s)
        i4 == Step(i3, ns)
        acc2 == IF ns # prev_s THEN Append(acc, i3) ELSE acc
    IN IF i4 = i0 /\ i3 = i1 THEN acc2
       ELSE FollowLoop(fg, i0, i1, i4, (ns + 4) % 8, ns, acc2)

\* the border that starts at pixel i0: an outer border (is_hole = FALSE) or a
\* hole border
FollowBorder(fg, i0, is_hole) ==
    LET s_end == IF is_hole THEN 0 ELSE 4
        found == {k \in 1 .. 7 : Step(i0, (s_end - k) % 8) \in fg}
    IN IF found = {} THEN <<i0>>
       ELSE LET k == CHOOSE k \in found : \A j \in found : k <= j
                s == (s_end - k) % 8
            IN FollowLoop(fg, i0, Step(i0, s), i0, s, (s + 4) % 8, <<>>)

\* the borders found, each [at: the pixel where the scan meets it,
\* start: the pixel the border starts at, hole: whether a hole border]
OuterStarts(m, external_only) ==
    LET out == OutsideBackground(m)
    IN {[at |-> RasterFirst(c), start |-> RasterFirst(c), hole |-> FALSE] :
          c \in {c \in Components(NonZero(m), 8) :
                    \/ ~external_only
                    \/ RasterFirst(c)[1] = 0
                    \/ <<RasterFirst(c)[1] - 1, RasterFirst(c)[2]>> \in out}}

HoleStarts(m) ==
    LET holes == Components((DOMAIN m.px \ NonZero(m)) \ OutsideBackground(m), 4)
    IN {[at |-> RasterFirst(c),
         start |-> <<RasterFirst(c)[1] - 1, RasterFirst(c)[2]>>, hole |-> TRUE] :
          c \in holes}

\* the list OpenCV returns holds the last border found first
RECURSIVE BordersLastFirst(_, _)
BordersLastFirst(fg, starts) ==
    IF starts = {} THEN <<>>
    ELSE LET b == CHOOSE b \in starts :
                     \A c \in starts : c = b \/ RasterBefore(c.at, b.at)
         IN <<FollowBorder(fg, b.start, b.hole)>> \o BordersLastFirst(fg, starts \ {b})

\* find_contours(binary, mode)[0], mode "EXTERNAL" (RETR_EXTERNAL: the outer
\* borders not inside a hole) or "TREE" (RETR_TREE: every outer and hole
\* border; the hierarchy is not modelled, main never reads it)
find_contours(binary, mode) ==
    IF mode = "EXTERNAL"
    THEN BordersLastFirst(NonZero(binary), OuterStarts(binary, TRUE))
    ELSE BordersLastFirst(NonZero(binary),
                          OuterStarts(binary, FALSE) \cup HoleStarts(binary))

\* ------------------------------------------------------ contour measurements
\* the point after index i (1-based) of a closed contour
NextIdx(c, i) == IF i = Len(c) THEN 1 ELSE i + 1

RECURSIVE SumUpTo(_, _)
SumUpTo(f, n) == IF n = 0 THEN 0 ELSE f[n] + SumUpTo(f, n - 1)

\* twice cv2.contourArea(c) (oriented=False): the absolute value of the
\* shoelace sum; contourArea itself halves it
contourArea2(c) ==
    IF Len(c) = 0 THEN 0
    ELSE Abs(SumUpTo([i \in 1 .. Len(c) |->
                        c[i][1] * c[NextIdx(c, i)][2] - c[NextIdx(c, i)][1] * c[i][2]],
                     Len(c)))

\* max(outline_contours, key=cv2.contourArea): Python's max returns the first
\* of the maximal elements
LargestLast(cs) ==
    LET i == CHOOSE i \in 1 .. Len(cs) :
                /\ \A j \in 1 .. Len(cs) : contourArea2(cs[j]) <= contourArea2(cs[i])
                /\ \A j \in i + 1 .. Len(cs) : contourArea2(cs[j]) < contourArea2(cs[i])
    IN cs[i]
Largest(cs) ==
    LET i == CHOOSE i \in 1 .. Len(cs) :
                /\ \A j \in 1 .. Len(cs) : contourArea2(cs[j]) <= contourArea2(cs[i])
                /\ \A j \in 1 .. i - 1 : contourArea2(cs[j]) < contourArea2(cs[i])
    IN cs[i]

\* ------------------------------------------------------------ simplify_contour
\* Factors (args.simplify, the 0.002 of the detail layer) are in thousandths.
\* 1000 * cv2.arcLength(c, True), rounded up; the edges of a traced contour
\* are horizontal, vertical or diagonal (sqrt 2 < 1.415)
EdgeMilli(a, b) ==
    LET dx == Abs(b[1] - a[1])
        dy == Abs(b[2] - a[2])
    IN IF dx = dy THEN 1415 * dx ELSE 1000 * (dx + dy)

arcLengthMilli(c) ==
    IF Len(c) < 2 THEN 0
    ELSE SumUpTo([i \in 1 .. Len(c) |-> EdgeMilli(c[i], c[NextIdx(c, i)])], Len(c))

\* d2 <= epsilon^2 * l2, for integers d2 and l2 and epsilon in thousandths
WithinEps(d2, l2, epsMilli) == d2 <= (epsMilli * epsMilli * l2) \div 1000000

Dist2(a, b) == (a[1] - b[1]) * (a[1] - b[1]) + (a[2] - b[2]) * (a[2] - b[2])

\* |cross product| of p - a and b - a: the distance of p from the chord a b,
\* times the length of the chord
ChordDist(p, a, b) ==
    Abs((p[2] - a[2]) * (b[1] - a[1]) - (p[1] - a[1]) * (b[2] - a[2]))

\* cv::approxPolyDP, closed curve.  Indices are 0-based as in the C++ code.
\* step 1, one of the 3 iterations: from src[pos], the offset of the farthest point
FarthestFrom(c, pos, rs) ==
    LET n == Len(c)
        d(j) == Dist2(c[((pos + j) % n) + 1], c[pos + 1])
        far == {j \in 1 .. n - 1 : d(j) > 0 /\ \A k \in 1 .. n - 1 : d(k) <= d(j)}
    IN IF far = {} THEN [rs |-> rs, max_dist |-> 0]
       ELSE LET j == CHOOSE j \in far : \A k \in far : j <= k
            IN [rs |-> j, max_dist |-> d(j)]

\* step 3: the points written for the slice from index a to index b
RECURSIVE DPSlice(_, _, _, _)
DPSlice(c, a, b, epsMilli) ==
    LET n == Len(c)
        start_pt == c[a + 1]
        end_pt == c[b + 1]
        len == (b - a) % n
        inner == {(a + k) % n : k \in 1 .. len - 1}
        dist(i) == ChordDist(c[i + 1], start_pt, end_pt)
    IN IF (a + 1) % n = b \/ inner = {} THEN <<start_pt>>
       ELSE LET far == {i \in inner : \A k \in inner : dist(k) <= dist(i)}
                \* the first of the farthest, in reading order
                m == CHOOSE i \in far : \A k \in far : (i - a) % n <= (k - a) % n
            IN IF dist(m) = 0
                  \/ WithinEps(dist(m) * dist(m), Dist2(start_pt, end_pt), epsMilli)
               THEN <<start_pt>>
               ELSE DPSlice(c, a, m, epsMilli) \o DPSlice(c, m, b, epsMilli)

\* step 4: the final clean-up, which drops a point lying on the slanted
\* straight line between its two neighbours
RECURSIVE CleanUp(_, _, _, _, _, _, _, _, _)
CleanUp(dst, count, new_count, i, pos, wpos, start_pt, pt, epsMilli) ==
    IF ~(i < count /\ new_count > 2) THEN SubSeq(dst, 1, new_count)
    ELSE LET end_pt == dst[pos + 1]
             pos1 == (pos + 1) % count
             dx == end_pt[1] - start_pt[1]
             dy == end_pt[2] - start_pt[2]
             dist == Abs((pt[1] - start_pt[1]) * dy - (pt[2] - start_pt[2]) * dx)
             sip == (pt[1] - start_pt[1]) * (end_pt[1] - pt[1])
                  + (pt[2] - start_pt[2]) * (end_pt[2] - pt[2])
         IN IF /\ WithinEps(2 * dist * dist, dx * dx + dy * dy, epsMilli)
               /\ dx # 0 /\ dy # 0 /\ sip >= 0
            THEN LET dst1 == [dst EXCEPT ![wpos + 1] = end_pt]
                 IN CleanUp(dst1, count, new_count - 1, i + 2, (pos1 + 1) % count,
                            (wpos + 1) % count, end_pt, dst1[pos1 + 1], epsMilli)
            ELSE CleanUp([dst EXCEPT ![wpos + 1] = pt], count, new_count, i + 1, pos1,
                         (wpos + 1) % count, pt, end_pt, epsMilli)

approxPolyDP(c, epsMilli) ==
    LET n == Len(c)
    IN IF n = 0 THEN <<>>
       ELSE LET it1 == FarthestFrom(c, 0, 0)
                pos2 == it1.rs % n
                it2 == FarthestFrom(c, pos2, it1.rs)
                pos3 == (pos2 + it2.rs) % n
                it3 == FarthestFrom(c, pos3, it2.rs)
                far == (it3.rs + pos3) % n
                written == IF WithinEps(it3.max_dist, 1, epsMilli)
                           THEN <<c[pos3 + 1]>>
                           ELSE DPSlice(c, pos3, far, epsMilli)
                                \o DPSlice(c, far, pos3, epsMilli)
                count == Len(written)
            IN CleanUp(written, count, count, 0, IF count = 1 THEN 0 ELSE 1, 0,
                       written[count], written[1], epsMilli)

\* simplify_contour(contour, factor), factor in thousandths
simplify_contour(contour, factorMilli) ==
    LET peri == arcLengthMilli(contour)
        epsilon == (factorMilli * peri) \div 1000
    IN approxPolyDP(contour, epsilon)

\* -------------------------------------------------------------- drawContours
\* whether pixel p lies on the segment a b
OnSegment(p, a, b) ==
    /\ (p[1] - a[1]) * (b[2] - a[2]) = (p[2] - a[2]) * (b[1] - a[1])
    /\ Min2(a[1], b[1]) <= p[1] /\ p[1] <= Max2(a[1], b[1])
    /\ Min2(a[2], b[2]) <= p[2] /\ p[2] <= Max2(a[2], b[2])

\* whether the ray from p to the right crosses the edge a b
Crosses(p, a, b) ==
    /\ (a[2] > p[2]) # (b[2] > p[2])
    /\ IF b[2] > a[2]
       THEN (p[1] - a[1]) * (b[2] - a[2]) < (p[2] - a[2]) * (b[1] - a[1])
       ELSE (p[1] - a[1]) * (b[2] - a[2]) > (p[2] - a[2]) * (b[1] - a[1])

\* cv2.drawContours(mask, [c], -1, 255, cv2.FILLED) on a mask of zeros: the
\* pixels on the polygon's edges and those inside it become 255
drawContoursFilled(mask, c) ==
    [w |-> mask.w, h |-> mask.h,
     px |-> [p \in DOMAIN mask.px |->
        IF Len(c) = 0 THEN mask.px[p]
        ELSE IF \/ \E i \in 1 .. Len(c) : OnSegment(p, c[i], c[NextIdx(c, i)])
                \/ Cardinality({i \in 1 .. Len(c) :
                                   Crosses(p, c[i], c[NextIdx(c, i)])}) % 2 = 1
             THEN 255
             ELSE mask.px[p]]]

\* ===================================================================== state
VARIABLES
    pc,                         \* where the run is
    img_gray,                   \* the grayscale input
    args,                       \* the parsed command line
    shape_mask, outline_contours, outline_contours_filtered, silhouette_mask,
    white_mask, white_inside, white_inside_eroded,
    detail_contours, detail_contours_filtered,
    stderr,                     \* the warnings printed
    files,                      \* the output files written
    docs,                       \* the path data written to the SVG files
    meta,                       \* <<ART_W_U, ART_H_U>> of the meta file, or <<>>
    exc,                        \* the uncaught exception that ended the run
    polys, offset,              \* arguments of the calls to the helper functions
    bin_ret, bbox_ret, bbox_ret_t, path_ret

vars == <<pc, img_gray, args, shape_mask, outline_contours, outline_contours_filtered,
          silhouette_mask, white_mask, white_inside, white_inside_eroded,
          detail_contours, detail_contours_filtered, stderr, files, docs, meta, exc,
          polys, offset, bin_ret, bbox_ret, bbox_ret_t, path_ret>>

mainVars == <<shape_mask, outline_contours, outline_contours_filtered,
              silhouette_mask, white_mask, white_inside, white_inside_eroded,
              detail_contours, detail_contours_filtered, stderr, files, docs, meta, exc>>

callVars == <<polys, offset, bin_ret, bbox_ret, bbox_ret_t, path_ret>>

\* a mask not assigned yet
NoMask == [w |-> 0, h |-> 0, px |-> <<>>]
NoDocs == [outline_layer |-> <<>>, detail_layer |-> <<>>,
           outline_file |-> <<>>, detail_file |-> <<>>]
NoRet == [err |-> "none", box |-> <<>>]
NoPaths == [paths |-> <<>>, compound |-> <<>>]

\* ------------------------------------------------------------------- inputs
\* parse_args: the defaults of --threshold, --blur, --simplify (0.01, in
\* thousandths) and --min-area; --outline-offset 0 for the small images
BaseArgs == [threshold |-> 180, invert |-> FALSE, blur |-> 3, outline_offset |-> 0,
             simplify |-> 10, min_area |-> 50]

\* the command lines of the runs of main: one option away from BaseArgs
MainArgs ==
    {BaseArgs,
     [BaseArgs EXCEPT !.threshold = 0],
     [BaseArgs EXCEPT !.invert = TRUE],
     [BaseArgs EXCEPT !.blur = 0],
     [BaseArgs EXCEPT !.outline_offset = 1],
     [BaseArgs EXCEPT !.simplify = 0],
     [BaseArgs EXCEPT !.min_area = 0]}

\* the pixels of a square of ink, hollow or not
Square(x, y, side, hollow) ==
    {p \in Pix(ImgW, ImgH) :
        /\ x <= p[1] /\ p[1] < x + side /\ y <= p[2] /\ p[2] < y + side
        /\ hollow => (p[1] = x \/ p[1] = x + side - 1 \/ p[2] = y \/ p[2] = y + side - 1)}

\* the input images of main: black ink (0) on white (255), the ink one square
\* (hollow or not) near the top left corner and a second, smaller one
InkSets ==
    {Square(a[1], a[2], sa, hollow) \cup Square(b[1], b[2], sb, FALSE) :
        a \in {<<0, 0>>, <<1, 1>>, <<0, 1>>, <<1, 0>>}, sa \in 0 .. MaxSideA,
        hollow \in BOOLEAN,
        b \in {<<3, 3>>, <<3, 0>>, <<0, 3>>}, sb \in 0 .. MaxSideB}

MainImages ==
    {[w |-> ImgW, h |-> ImgH,
      px |-> [p \in Pix(ImgW, ImgH) |-> IF p \in ink THEN 0 ELSE 255]] :
        ink \in InkSets}

\* the inputs of the calls to binarize
PixVals == {0, 180, 255}
BinImages ==
    {[w |-> BinW, h |-> BinH, px |-> f] : f \in [Pix(BinW, BinH) -> PixVals]}
BinArgs ==
    {[BaseArgs EXCEPT !.threshold = t, !.blur = b, !.invert = i] :
        t \in {0, 180, 255}, b \in {0, 1, 2, 3}, i \in BOOLEAN}

\* the inputs of the calls to bbox_from_polys and to the serializers
PtSeqs ==
    {<<>>,
     << <<1, 2>> >>,
     << <<MaxCoord, 0>>, <<3, MaxCoord>> >>,
     << <<0, 0>>, <<0, 7>>, <<10, 7>> >>}

PolyPool ==
    {[fmt |-> "None", pts |-> <<>>]}
    \cup {[fmt |-> f, pts |-> ps] : f \in {"list", "array", "iter"}, ps \in PtSeqs}
    \cup {[fmt |-> "triples", pts |-> ps] : ps \in {<<>>, << <<1, 2>> >>}}

Contours == {[fmt |-> "array", pts |-> ps] : ps \in PtSeqs}

SeqsUpTo(S, n) == UNION {[1 .. k -> S] : k \in 0 .. n}

Offsets == {<<3, -2>>, <<-4, 1000>>}

Translate(ps, d) ==
    [i \in 1 .. Len(ps) |->
        [ps[i] EXCEPT !.pts = [j \in 1 .. Len(ps[i].pts) |->
                                  <<ps[i].pts[j][1] + d[1], ps[i].pts[j][2] + d[2]>>]]]

\* --------------------------------------------------------------------- Init
InitMainVars ==
    /\ shape_mask = NoMask /\ silhouette_mask = NoMask /\ white_mask = NoMask
    /\ white_inside = NoMask /\ white_inside_eroded = NoMask
    /\ outline_contours = <<>> /\ outline_contours_filtered = <<>>
    /\ detail_contours = <<>> /\ detail_contours_filtered = <<>>
    /\ stderr = {} /\ files = {} /\ docs = NoDocs /\ meta = <<>> /\ exc = "none"

InitCallVars ==
    /\ bin_ret = NoMask /\ bbox_ret = NoRet /\ bbox_ret_t = NoRet /\ path_ret = NoPaths

\* a run of main, after parse_args and load_grayscale
InitMain ==
    /\ pc = "threshold"
    /\ img_gray \in MainImages /\ args \in MainArgs
    /\ polys = <<>> /\ offset = <<0, 0>>

InitBinarize ==
    /\ pc = "binarize"
    /\ img_gray \in BinImages /\ args \in BinArgs
    /\ polys = <<>> /\ offset = <<0, 0>>

InitBBox ==
    /\ pc = "bbox_from_polys"
    /\ img_gray = NoMask /\ args = BaseArgs
    /\ polys \in SeqsUpTo(PolyPool, MaxPolys) /\ offset \in Offsets

InitPath ==
    /\ pc = "contours_to_path"
    /\ img_gray = NoMask /\ args = BaseArgs
    /\ polys \in SeqsUpTo(Contours, MaxPolys) /\ offset = <<0, 0>>

Init ==
    /\ InitMainVars /\ InitCallVars
    /\ (InitMain \/ InitBinarize \/ InitBBox \/ InitPath)

\* ================================================================== main
\* lines 276-278: shape_mask, 255 where the pixel is "black-ish"
Threshold ==
    /\ pc = "threshold"
    /\ shape_mask' = threshold_inv(img_gray, args.threshold)
    /\ pc' = "dilate"
    /\ UNCHANGED <<img_gray, args, outline_contours, outline_contours_filtered,
                   silhouette_mask, white_mask, white_inside, white_inside_eroded,
                   detail_contours, detail_contours_filtered, stderr, files, docs,
                   meta, exc>>
    /\ UNCHANGED callVars

\* lines 281-284: the optional dilation; the kernel of size
\* max(1, 2 * outline_offset + 1) reaches outline_offset pixels each way
Dilate ==
    /\ pc = "dilate"
    /\ shape_mask' = IF args.outline_offset > 0
                     THEN dilate(shape_mask,
                                 (Max2(1, args.outline_offset * 2 + 1) - 1) \div 2)
                     ELSE shape_mask
    /\ pc' = "outline"
    /\ UNCHANGED <<img_gray, args, outline_contours, outline_contours_filtered,
                   silhouette_mask, white_mask, white_inside, white_inside_eroded,
                   detail_contours, detail_contours_filtered, stderr, files, docs,
                   meta, exc>>
    /\ UNCHANGED callVars

\* line 287
TraceOutline ==
    /\ pc = "outline"
    /\ outline_contours' = find_contours(shape_mask, "EXTERNAL")
    /\ pc' = "select"
    /\ UNCHANGED <<img_gray, args, shape_mask, outline_contours_filtered,
                   silhouette_mask, white_mask, white_inside, white_inside_eroded,
                   detail_contours, detail_contours_filtered, stderr, files, docs,
                   meta, exc>>
    /\ UNCHANGED callVars

\* lines 289-307: the largest region becomes the outline and is filled into
\* silhouette_mask; without contours, a warning
SelectLargest ==
    /\ pc = "select"
    /\ IF outline_contours # <<>>
       THEN LET largest == Largest(outline_contours)
                cnt_simplified == simplify_contour(largest, args.simplify)
            IN /\ outline_contours_filtered' = <<cnt_simplified>>
               /\ silhouette_mask' =
                      drawContoursFilled(Zeros(img_gray.w, img_gray.h), cnt_simplified)
               /\ stderr' = stderr
       ELSE /\ outline_contours_filtered' = <<>>
            /\ silhouette_mask' = Zeros(img_gray.w, img_gray.h)
            /\ stderr' = stderr \cup {"WARNING: No outline contours found"}
    /\ pc' = "white"
    /\ UNCHANGED <<img_gray, args, shape_mask, outline_contours, white_mask,
                   white_inside, white_inside_eroded, detail_contours,
                   detail_contours_filtered, files, docs, meta, exc>>
    /\ UNCHANGED callVars

\* lines 312-321: the white inside the silhouette; the erosion has iterations=0
WhiteInside ==
    /\ pc = "white"
    /\ white_mask' = threshold_bin(img_gray, args.threshold)
    /\ white_inside' = bitwise_and(white_mask', silhouette_mask)
    /\ white_inside_eroded' = erode(white_inside', 1, 0)
    /\ pc' = "detail"
    /\ UNCHANGED <<img_gray, args, shape_mask, outline_contours,
                   outline_contours_filtered, silhouette_mask, detail_contours,
                   detail_contours_filtered, stderr, files, docs, meta, exc>>
    /\ UNCHANGED callVars

\* lines 326-328
TraceDetail ==
    /\ pc = "detail"
    /\ detail_contours' = find_contours(white_inside_eroded, "TREE")
    /\ pc' = "filter"
    /\ UNCHANGED <<img_gray, args, shape_mask, outline_contours,
                   outline_contours_filtered, silhouette_mask, white_mask,
                   white_inside, white_inside_eroded, detail_contours_filtered,
                   stderr, files, docs, meta, exc>>
    /\ UNCHANGED callVars

\* line 333, "if area < 2.0: continue", on twice the area; min_area is
\* args.min_area, which the test does not read
DetailSkipped(area2, min_area) == area2 < 2 * 2

\* lines 330-341: the loop over detail_contours
RECURSIVE FilterDetailLoop(_, _)
FilterDetailLoop(cs, min_area) ==
    IF cs = <<>> THEN <<>>
    ELSE (IF DetailSkipped(contourArea2(Head(cs)), min_area)
          THEN <<>>
          ELSE <<simplify_contour(Head(cs), 2)>>)
         \o FilterDetailLoop(Tail(cs), min_area)

\* lines 330-344
FilterDetail ==
    /\ pc = "filter"
    /\ detail_contours_filtered' = FilterDetailLoop(detail_contours, args.min_area)
    /\ stderr' = IF detail_contours_filtered' = <<>>
                 THEN stderr \cup {"WARNING: No detail contours found"}
                 ELSE stderr
    /\ pc' = "svg"
    /\ UNCHANGED <<img_gray, args, shape_mask, outline_contours,
                   outline_contours_filtered, silhouette_mask, white_mask,
                   white_inside, white_inside_eroded, detail_contours, files, docs,
                   meta, exc>>
    /\ UNCHANGED callVars

\* the paths create_svg and write_svg_single_group add for a list of contours:
\* one per contour with a non-empty path string
RECURSIVE LayerPaths(_)
LayerPaths(cs) ==
    IF cs = <<>> THEN <<>>
    ELSE LET d == contour_to_path_d(Head(cs))
         IN (IF d # <<>> THEN <<d>> ELSE <<>>) \o LayerPaths(Tail(cs))

\* write_svg_detail_evenodd: one compound path, if it is not empty
DetailFilePaths(cs) ==
    LET d == contours_to_compound_path_d(cs)
    IN IF d # <<>> THEN <<d>> ELSE <<>>

\* lines 366-371: the combined SVG and the two single-layer SVGs
WriteSvgs ==
    /\ pc = "svg"
    /\ docs' = [outline_layer |-> LayerPaths(outline_contours_filtered),
                detail_layer |-> LayerPaths(detail_contours_filtered),
                outline_file |-> LayerPaths(outline_contours_filtered),
                detail_file |-> DetailFilePaths(detail_contours_filtered)]
    /\ files' = files \cup {"output.svg", "output_outline.svg", "output_detail.svg"}
    /\ pc' = "bbox"
    /\ UNCHANGED <<img_gray, args, shape_mask, outline_contours,
                   outline_contours_filtered, silhouette_mask, white_mask,
                   white_inside, white_inside_eroded, detail_contours,
                   detail_contours_filtered, stderr, meta, exc>>
    /\ UNCHANGED callVars

\* lines 373-379: the bounding box of the outline and the meta file; an
\* exception of bbox_from_polys is not caught and ends the run
WriteMeta ==
    /\ pc = "bbox"
    /\ LET r == bbox_from_polys([i \in 1 .. Len(outline_contours_filtered) |->
                     [fmt |-> "array", pts |-> outline_contours_filtered[i]]])
       IN IF r.err # "none"
          THEN /\ exc' = r.err
               /\ pc' = "crashed"
               /\ UNCHANGED <<meta, files>>
          ELSE /\ meta' = <<r.box[3] - r.box[1], r.box[4] - r.box[2]>>
               /\ files' = files \cup {"output_meta.scad"}
               /\ pc' = "done"
               /\ exc' = exc
    /\ UNCHANGED <<img_gray, args, shape_mask, outline_contours,
                   outline_contours_filtered, silhouette_mask, white_mask,
                   white_inside, white_inside_eroded, detail_contours,
                   detail_contours_filtered, stderr, docs>>
    /\ UNCHANGED callVars

\* ======================================================== calls to the helpers
CallBinarize ==
    /\ pc = "binarize"
    /\ bin_ret' = binarize(img_gray, args.threshold, args.blur, args.invert)
    /\ pc' = "binarize_ret"
    /\ UNCHANGED <<img_gray, args, polys, offset, bbox_ret, bbox_ret_t, path_ret>>
    /\ UNCHANGED mainVars

\* bbox_from_polys of the polygons and of the polygons translated by offset
CallBBox ==
    /\ pc = "bbox_from_polys"
    /\ bbox_ret' = bbox_from_polys(polys)
    /\ bbox_ret_t' = bbox_from_polys(Translate(polys, offset))
    /\ pc' = "bbox_from_polys_ret"
    /\ UNCHANGED <<img_gray, args, polys, offset, bin_ret, path_ret>>
    /\ UNCHANGED mainVars

\* contour_to_path_d of each contour, and contours_to_compound_path_d
CallPath ==
    /\ pc = "contours_to_path"
    /\ path_ret' = [paths |-> [i \in 1 .. Len(polys) |-> contour_to_path_d(polys[i].pts)],
                    compound |-> contours_to_compound_path_d(
                                     [i \in 1 .. Len(polys) |-> polys[i].pts])]
    /\ pc' = "contours_to_path_ret"
    /\ UNCHANGED <<img_gray, args, polys, offset, bin_ret, bbox_ret, bbox_ret_t>>
    /\ UNCHANGED mainVars

Next ==
    \/ Threshold \/ Dilate \/ TraceOutline \/ SelectLargest \/ WhiteInside
    \/ TraceDetail \/ FilterDetail \/ WriteSvgs \/ WriteMeta
    \/ CallBinarize \/ CallBBox \/ CallPath

Spec == Init /\ [][Next]_vars

\* =================================================================== claims
MainOrder == <<"threshold", "dilate", "outline", "select", "white", "detail",
               "filter", "svg", "bbox", "done", "crashed">>
PcIndex(q) == CHOOSE i \in 1 .. Len(MainOrder) : MainOrder[i] = q
InMain == \E i \in 1 .. Len(MainOrder) : MainOrder[i] = pc
\* main is past the step that starts at position q
Past(q) == InMain /\ PcIndex(pc) > PcIndex(q)
Ended == pc \in {"done", "crashed"}

TotalPoints(ps) == SumUpTo([i \in 1 .. Len(ps) |-> Len(ps[i].pts)], Len(ps))

NoOutlineWarning == "WARNING: No outline contours found" \in stderr
NoDetailWarning == "WARNING: No detail contours found" \in stderr

\* ---- C1
\* C1 (as claimed): a run on an image without any pixel dark enough to become
\* foreground finds no outline contour, prints the no-outline warning and
\* ends normally, without an uncaught exception.
C1_NoForegroundRunEndsNormally ==
    (Ended /\ \A p \in DOMAIN img_gray.px : img_gray.px[p] > args.threshold)
        => /\ outline_contours = <<>>
           /\ NoOutlineWarning
           /\ pc = "done" /\ exc = "none"

\* ---- C2
\* C2: bbox_from_polys returns no box for polygons with zero points in total
\* (it raises), and main writes the meta file only after bbox_from_polys
\* returned a box: a run with an empty outline never writes it.
C2_NoBoxWithoutPoints ==
    /\ (pc = "bbox_from_polys_ret" /\ TotalPoints(polys) = 0) => bbox_ret.err # "none"
    /\ InMain =>
         /\ ("output_meta.scad" \in files \/ meta # <<>>) =>
                (pc = "done" /\ outline_contours_filtered # <<>>)
         /\ (Ended /\ outline_contours_filtered = <<>>) =>
                (pc = "crashed" /\ "output_meta.scad" \notin files /\ meta = <<>>)

C2_Witness ==
    /\ pc = "bbox_from_polys_ret"
    /\ Len(polys) = 2 /\ TotalPoints(polys) = 0
    /\ polys[1].fmt = "list" /\ polys[2].fmt = "None"
    /\ bbox_ret.err = "ValueError"

\* ---- C3
BlurDisabled == ~(args.blur > 0 /\ args.blur % 2 = 1)

\* C3 (as claimed): thresholding makes a pixel foreground (255) iff its value
\* is strictly below the threshold, in main's shape_mask and in binarize
\* without invert and without blur; a pixel equal to the threshold is background.
C3_ForegroundIffStrictlyBelow ==
    /\ pc = "dilate" =>
          \A p \in DOMAIN img_gray.px :
              shape_mask.px[p] = IF img_gray.px[p] < args.threshold THEN 255 ELSE 0
    /\ (pc = "binarize_ret" /\ ~args.invert /\ BlurDisabled) =>
          \A p \in DOMAIN img_gray.px :
              bin_ret.px[p] = IF img_gray.px[p] < args.threshold THEN 255 ELSE 0

\* C3 (amended): a pixel becomes foreground (255) iff its value is at most the
\* threshold; a pixel equal to the threshold is foreground.
C3_ForegroundIffAtMost ==
    /\ pc = "dilate" =>
          \A p \in DOMAIN img_gray.px :
              shape_mask.px[p] = IF img_gray.px[p] <= args.threshold THEN 255 ELSE 0
    /\ (pc = "binarize_ret" /\ ~args.invert /\ BlurDisabled) =>
          \A p \in DOMAIN img_gray.px :
              bin_ret.px[p] = IF img_gray.px[p] <= args.threshold THEN 255 ELSE 0

C3_Witness ==
    /\ pc = "binarize_ret" /\ ~args.invert /\ BlurDisabled
    /\ \E p \in DOMAIN img_gray.px :
          /\ img_gray.px[p] = args.threshold /\ bin_ret.px[p] = 255
    /\ \E p \in DOMAIN img_gray.px :
          /\ img_gray.px[p] > args.threshold /\ bin_ret.px[p] = 0

\* ---- C4
IsFirstLargest(cs, i) ==
    /\ \A j \in 1 .. Len(cs) : contourArea2(cs[j]) <= contourArea2(cs[i])
    /\ \A j \in 1 .. i - 1 : contourArea2(cs[j]) < contourArea2(cs[i])

\* C4: the outline layer holds at most one polygon; when external contours
\* were traced it is the simplified contour of maximum area, the first of
\* them in trace order among equals, and nothing else.
C4_OutlineIsFirstLargest ==
    /\ Past("select") =>
          /\ Len(outline_contours_filtered) <= 1
          /\ outline_contours = <<>> => outline_contours_filtered = <<>>
          /\ outline_contours # <<>> =>
                \E i \in 1 .. Len(outline_contours) :
                    /\ IsFirstLargest(outline_contours, i)
                    /\ outline_contours_filtered =
                          <<simplify_contour(outline_contours[i], args.simplify)>>
    /\ Past("svg") =>
          /\ docs.outline_layer = [i \in 1 .. Len(outline_contours_filtered) |->
                                      contour_to_path_d(outline_contours_filtered[i])]
          /\ docs.outline_file = docs.outline_layer

C4_Witness ==
    /\ pc = "done"
    /\ \E i, j \in 1 .. Len(outline_contours) :
          /\ i < j
          /\ IsFirstLargest(outline_contours, i)
          /\ contourArea2(outline_contours[j]) = contourArea2(outline_contours[i])
          /\ contourArea2(outline_contours[i]) > 0
          /\ outline_contours_filtered =
                <<simplify_contour(outline_contours[i], args.simplify)>>
    /\ Len(docs.outline_layer) = 1

\* ---- C5
\* C5 (as claimed): after the detail filter every kept contour has an area of
\* at least --min-area, and every traced detail contour of at least that
\* area is kept.
C5_MinAreaFiltersDetail ==
    Past("filter") =>
        /\ \A i \in 1 .. Len(detail_contours_filtered) :
              contourArea2(detail_contours_filtered[i]) >= 2 * args.min_area
        /\ Len(detail_contours_filtered) =
              Cardinality({j \in 1 .. Len(detail_contours) :
                             contourArea2(detail_contours[j]) >= 2 * args.min_area})

\* ---- C6
\* C6 (as claimed): the mask main traces the silhouette from is, before the
\* dilation, binarize(img, threshold, blur, invert) for the configured blur
\* and invert.
C6_ShapeMaskIsBinarize ==
    pc = "dilate" =>
        shape_mask = binarize(img_gray, args.threshold, args.blur, args.invert)

\* ---- C7
IsMaskOf(m, img) ==
    /\ m.w = img.w /\ m.h = img.h
    /\ DOMAIN m.px = Pix(img.w, img.h)
    /\ \A p \in DOMAIN m.px : m.px[p] \in {0, 255}

\* C7: every mask of the pipeline holds only 0 and 255 and has the size of
\* the input image: the result of binarize, shape_mask before and after the
\* dilation, silhouette_mask, white_mask, white_inside, white_inside_eroded.
C7_MasksAreBinary ==
    /\ pc = "binarize_ret" => IsMaskOf(bin_ret, img_gray)
    /\ Past("threshold") => IsMaskOf(shape_mask, img_gray)
    /\ Past("select") => IsMaskOf(silhouette_mask, img_gray)
    /\ Past("white") =>
          /\ IsMaskOf(white_mask, img_gray)
          /\ IsMaskOf(white_inside, img_gray)
          /\ IsMaskOf(white_inside_eroded, img_gray)

HasBoth(m) == \E p, q \in DOMAIN m.px : m.px[p] = 0 /\ m.px[q] = 255

C7_Witness ==
    /\ pc = "done" /\ args.outline_offset = 1
    /\ HasBoth(shape_mask) /\ HasBoth(silhouette_mask) /\ HasBoth(white_mask)
    /\ HasBoth(white_inside) /\ HasBoth(white_inside_eroded)
    /\ shape_mask # threshold_inv(img_gray, args.threshold)

\* ---- C8
AcceptedFormat(poly) == poly.fmt \in {"None", "list", "array", "iter"}

\* C8 (as claimed): for polygons of the accepted formats with at least one
\* point in total, None and zero-point polygons included, bbox_from_polys
\* returns a box, and for the polygons translated by (dx, dy) it returns
\* that box translated by (dx, dy): width and height are unchanged.
C8_TranslationEquivariant ==
    (/\ pc = "bbox_from_polys_ret"
     /\ \A i \in 1 .. Len(polys) : AcceptedFormat(polys[i])
     /\ TotalPoints(polys) >= 1)
        => /\ bbox_ret.err = "none" /\ bbox_ret_t.err = "none"
           /\ bbox_ret_t.box = <<bbox_ret.box[1] + offset[1], bbox_ret.box[2] + offset[2],
                                  bbox_ret.box[3] + offset[1], bbox_ret.box[4] + offset[2]>>
           /\ bbox_ret_t.box[3] - bbox_ret_t.box[1] = bbox_ret.box[3] - bbox_ret.box[1]
           /\ bbox_ret_t.box[4] - bbox_ret_t.box[2] = bbox_ret.box[4] - bbox_ret.box[2]

\* ---- C9
\* A reader of the path data written: the SVG path grammar restricted to
\* absolute M, L and Z, tokens separated by single spaces, numbers with two
\* decimals.  Coordinates are read in hundredths.
SpacesAt(chars) == {i \in 1 .. Len(chars) : chars[i] = " "}

\* the k-th smallest element of a set of numbers
Kth(S, k) == CHOOSE i \in S : Cardinality({j \in S : j < i}) = k - 1

\* the tokens between the spaces
SplitSpaces(chars) ==
    LET sp == SpacesAt(chars)
        n == Cardinality(sp) + 1
        from(k) == IF k = 1 THEN 1 ELSE Kth(sp, k - 1) + 1
        to(k) == IF k = n THEN Len(chars) ELSE Kth(sp, k) - 1
    IN [k \in 1 .. n |-> SubSeq(chars, from(k), to(k))]

IsDigit(c) == \E i \in 1 .. 10 : DigitChars[i] = c
DigitVal(c) == (CHOOSE i \in 1 .. 10 : DigitChars[i] = c) - 1

RECURSIVE DigitsVal(_, _)
DigitsVal(ds, acc) ==
    IF ds = <<>> THEN acc ELSE DigitsVal(Tail(ds), 10 * acc + DigitVal(Head(ds)))

\* "[-]d+.dd" -> [ok, v], v in hundredths
ReadNum(tok) ==
    LET neg == tok # <<>> /\ Head(tok) = "-"
        body == IF neg THEN Tail(tok) ELSE tok
        n == Len(body)
        wellFormed ==
            /\ n >= 4
            /\ body[n - 2] = "."
            /\ \A i \in (1 .. n) \ {n - 2} : IsDigit(body[i])
    IN IF ~wellFormed THEN [ok |-> FALSE, v |-> 0]
       ELSE LET whole == DigitsVal(SubSeq(body, 1, n - 3), 0)
                frac == DigitsVal(SubSeq(body, n - 1, n), 0)
            IN [ok |-> TRUE, v |-> (IF neg THEN -1 ELSE 1) * (100 * whole + frac)]

\* "x,y" -> [ok, pt]
ReadPoint(tok) ==
    LET commas == {i \in 1 .. Len(tok) : tok[i] = ","}
    IN IF Cardinality(commas) # 1 THEN [ok |-> FALSE, pt |-> <<0, 0>>]
       ELSE LET c == CHOOSE i \in commas : TRUE
                x == ReadNum(SubSeq(tok, 1, c - 1))
                y == ReadNum(SubSeq(tok, c + 1, Len(tok)))
            IN [ok |-> x.ok /\ y.ok, pt |-> <<x.v, y.v>>]

\* toks: the tokens left; cur: the open subpath (<<>> when none is open);
\* acc: the closed subpaths
RECURSIVE ReadTokens(_, _, _)
ReadTokens(toks, cur, acc) ==
    IF toks = <<>> THEN [ok |-> cur = <<>>, polys |-> acc]
    ELSE IF Head(toks) = <<"Z">>
         THEN IF cur = <<>> THEN [ok |-> FALSE, polys |-> acc]
              ELSE ReadTokens(Tail(toks), <<>>, Append(acc, cur))
    ELSE IF Head(toks) \in {<<"M">>, <<"L">>} /\ Len(toks) >= 2
         THEN LET pt == ReadPoint(toks[2])
              IN IF \/ ~pt.ok
                    \/ (Head(toks) = <<"M">>) # (cur = <<>>)
                 THEN [ok |-> FALSE, polys |-> acc]
                 ELSE ReadTokens(Tail(Tail(toks)), Append(cur, pt.pt), acc)
    ELSE [ok |-> FALSE, polys |-> acc]

ReadPathD(chars) ==
    IF chars = <<>> THEN [ok |-> TRUE, polys |-> <<>>]
    ELSE ReadTokens(SplitSpaces(chars), <<>>, <<>>)

Hundredths(pts) == [i \in 1 .. Len(pts) |-> <<100 * pts[i][1], 100 * pts[i][2]>>]

\* the polygons with at least one point, in order, in hundredths
RECURSIVE NonEmptyPolys(_)
NonEmptyPolys(ps) ==
    IF ps = <<>> THEN <<>>
    ELSE (IF Head(ps).pts = <<>> THEN <<>> ELSE <<Hundredths(Head(ps).pts)>>)
         \o NonEmptyPolys(Tail(ps))

\* C9: reading back the path data of contour_to_path_d and of
\* contours_to_compound_path_d gives the same polygons in the same order with
\* the same points in order; a zero-point polygon gives the empty string and
\* no subpath.
C9_PathDataRoundTrips ==
    pc = "contours_to_path_ret" =>
        /\ Len(path_ret.paths) = Len(polys)
        /\ \A i \in 1 .. Len(polys) :
              IF polys[i].pts = <<>> THEN path_ret.paths[i] = <<>>
              ELSE /\ path_ret.paths[i] # <<>>
                   /\ ReadPathD(path_ret.paths[i]) =
                         [ok |-> TRUE, polys |-> <<Hundredths(polys[i].pts)>>]
        /\ ReadPathD(path_ret.compound) = [ok |-> TRUE, polys |-> NonEmptyPolys(polys)]

C9_Witness ==
    /\ pc = "contours_to_path_ret"
    /\ Len(polys) = 2
    /\ polys[1].pts = <<>> /\ Len(polys[2].pts) = 3
    /\ ReadPathD(path_ret.compound) = [ok |-> TRUE, polys |-> <<Hundredths(polys[2].pts)>>]

\* ---- C10
\* C10: the detail-eligible mask lies inside the silhouette: a foreground
\* pixel of white_inside, and of the mask the detail contours are traced
\* from, is foreground in silhouette_mask and in white_mask; and when no
\* outline contour was found, silhouette_mask is all background, no detail
\* contour is found and both warnings are printed.
C10_DetailInsideSilhouette ==
    /\ Past("white") =>
          /\ Foreground(white_inside) \subseteq
                (Foreground(silhouette_mask) \cap Foreground(white_mask))
          /\ white_inside_eroded = white_inside
          /\ NonZero(white_inside_eroded) \subseteq Foreground(silhouette_mask)
    /\ (Past("select") /\ outline_contours = <<>>) =>
          /\ Foreground(silhouette_mask) = {} /\ NonZero(silhouette_mask) = {}
          /\ NoOutlineWarning
    /\ (Past("filter") /\ outline_contours = <<>>) =>
          /\ detail_contours = <<>> /\ detail_contours_filtered = <<>>
          /\ NoDetailWarning

C10_Witness ==
    /\ pc = "done"
    /\ Foreground(white_inside) # {}
    /\ Foreground(white_inside) # Foreground(white_mask)
    /\ Foreground(white_inside) # Foreground(silhouette_mask)
    /\ detail_contours_filtered # <<>>

=============================================================================
